---- MODULE Spec2Model ----
(***************************************************************************)
(* Item catalog service of mercari-build-training-2023 (Go).               *)
(*                                                                         *)
(* Two revisions of the server are modelled:                               *)
(*   variant = "file" : src/unnamed/part_000, items kept in items.json,    *)
(*                      rewritten in full by every addItem;                *)
(*   variant = "db"   : src/go/app/main.go, items kept in the sqlite table *)
(*                      items(id, name, category, image_filename).         *)
(* Every HTTP request is served by its own goroutine (echo / net/http), so *)
(* the steps of different requests interleave; nothing in the source takes *)
(* a lock.  log.Fatal ends the process (os.Exit(1)).                       *)
(*                                                                         *)
(* Strings that the code parses (image references, id parameters) are      *)
(* sequences of one-character strings.  A sha256 digest is represented by  *)
(* its preimage (the digest is assumed collision free).  The content of    *)
(* items.json is a sequence of JSON tokens; one item object is one token.  *)
(***************************************************************************)
EXTENDS Integers, Sequences, FiniteSets, TLC

VARIABLES
    variant,      \* "file" or "db": which revision serves the requests
    alive,        \* FALSE once log.Fatal has ended the process
    fileExists,   \* items.json exists
    file,         \* content of items.json (sequence of JSON tokens)
    tableExists,  \* the sqlite database with its items table can be queried
    table,        \* rows of the items table, in rowid order
    pc,           \* per request goroutine: where it stands in its handler
    req,          \* per request goroutine: the request it serves
    rd,           \* per request goroutine: the ItemWrapper it holds
    resp,         \* the response sent last, with the request it answers
    nreq,         \* number of requests accepted so far
    faults,       \* number of I/O failures the environment has produced
    acked,        \* items of the addItem requests answered 200, in order
    ids,          \* the id each of them was stored under, in the same order
    refs,         \* the image reference each of them was posted with
    init0,        \* the persisted state the server started with
    sequential,   \* requests arrive one after the other (SpecSeq)
    images        \* the paths of the files that exist in the image directory

vars == <<variant, alive, fileExists, file, tableExists, table, pc, req, rd,
          resp, nreq, faults, acked, ids, refs, init0, sequential,
          images>>

\* Bounds of the model.
NumProcs == 2
MaxRequests == 3
MaxSeqRequests == 4
MaxFaults == 1

Procs == 1..NumProcs

Max(S) == CHOOSE x \in S : \A y \in S : y <= x

-----------------------------------------------------------------------------
\* ContentNamer: trimPath and hashString.

RECURSIVE StripTrailingSlashes(_)
StripTrailingSlashes(s) ==
    IF Len(s) > 0 /\ s[Len(s)] = "/"
    THEN StripTrailingSlashes(SubSeq(s, 1, Len(s) - 1))
    ELSE s

LastSlash(s) ==
    LET I == {i \in 1..Len(s) : s[i] = "/"} IN IF I = {} THEN 0 ELSE Max(I)

\* filepath.Base
Base(s) ==
    IF s = <<>> THEN <<".">>
    ELSE LET t == StripTrailingSlashes(s)
             u == SubSeq(t, LastSlash(t) + 1, Len(t))
         IN IF u = <<>> THEN <<"/">> ELSE u

\* filepath.Ext: from the last dot of the last path element
Ext(s) ==
    LET D == {i \in 1..Len(s) : s[i] = "." /\ i > LastSlash(s)}
    IN IF D = {} THEN <<>> ELSE SubSeq(s, Max(D), Len(s))

\* strings.TrimSuffix
TrimSuffix(s, suf) ==
    IF Len(suf) <= Len(s) /\ SubSeq(s, Len(s) - Len(suf) + 1, Len(s)) = suf
    THEN SubSeq(s, 1, Len(s) - Len(suf))
    ELSE s

\* trimPath without filepath.Base: only the extension is removed
trimPath_keepDir(s) == TrimSuffix(s, Ext(s))

trimPath(s) ==
    LET imgFileName == Base(s) IN TrimSuffix(imgFileName, Ext(imgFileName))

\* hex(sha256(s)), represented by its preimage
hashString(s) == [sha256 |-> s]

\* hashImageName + ".jpg"
ImgFilename(imagePath) == [hash |-> hashString(trimPath(imagePath)), ext |-> ".jpg"]

-----------------------------------------------------------------------------
\* Items and the JSON document of items.json.

\* Item; Id is 0 wherever the code never sets it (part_000 has no Id field)
MkItem(id, name, category, img) ==
    [Id |-> id, Name |-> name, Category |-> category, Img_filename |-> img]

NoItem == MkItem(0, "", "", [hash |-> hashString(<<>>), ext |-> ""])

\* ItemWrapper: Items is a Go slice, nil or not
NilWrapper == [isnil |-> TRUE, elems |-> <<>>]
MkWrapper(s) == [isnil |-> FALSE, elems |-> s]

\* the item put in front instead of at the end
AppendItem_front(w, item) == MkWrapper(<<item>> \o w.elems)

\* append(itemWrapper.Items, item)
AppendItem(w, item) == MkWrapper(Append(w.elems, item))

Tok(k) == [k |-> k, v |-> NoItem]
ItemTok(it) == [k |-> "item", v |-> it]
LB == Tok("{")
RB == Tok("}")
KEY == Tok("items:")
NULL == Tok("null")
LBR == Tok("[")
RBR == Tok("]")

\* json.Marshal(ItemWrapper)
Marshal(w) ==
    IF w.isnil THEN <<LB, KEY, NULL, RB>>
    ELSE <<LB, KEY, LBR>> \o [i \in 1..Len(w.elems) |-> ItemTok(w.elems[i])]
         \o <<RBR, RB>>

\* json.Unmarshal(data, &items)
Unmarshal(data) ==
    LET n == Len(data) IN
    IF data = <<LB, RB>> \/ data = <<LB, KEY, NULL, RB>>
    THEN [err |-> FALSE, items |-> NilWrapper]
    ELSE IF /\ n >= 5
            /\ data[1] = LB /\ data[2] = KEY /\ data[3] = LBR
            /\ data[n - 1] = RBR /\ data[n] = RB
            /\ \A i \in 4..(n - 2) : data[i].k = "item"
    THEN [err |-> FALSE, items |-> MkWrapper([i \in 1..(n - 5) |-> data[i + 3].v])]
    ELSE [err |-> TRUE, items |-> NilWrapper]

\* a write of data at offset 0 of a file whose content is old
Overlay(old, data) ==
    IF Len(data) >= Len(old) THEN data
    ELSE data \o SubSeq(old, Len(data) + 1, Len(old))

-----------------------------------------------------------------------------
\* Requests and responses.

ImgMug == <<"/", "t", "/", "m", "u", "g", ".", "j", "p", "g">>
ImgCup == <<"c", "u", "p", ".", "p", "n", "g">>

\* the form values of POST /items
AddForms ==
    { [name |-> "mug", category |-> "kitchen", image |-> ImgMug],
      [name |-> "", category |-> "kitchen", image |-> ImgCup],
      [name |-> "cup", category |-> "", image |-> <<>>] }

\* image references as clients compose them: a directory, a stem without
\* dot or slash, an extension; the last one is the empty reference
ImageRefs ==
    { [dir |-> <<"/", "a", ".", "b", "/">>, stem |-> <<"c", "a", "t">>,
       ext |-> <<".", "p", "n", "g">>],
      [dir |-> <<"/", "x", "/">>, stem |-> <<"c", "a", "t">>,
       ext |-> <<".", "j", "p", "g">>],
      [dir |-> <<>>, stem |-> <<"c", "a", "t">>, ext |-> <<>>],
      [dir |-> <<"/", "a", ".", "b", "/">>, stem |-> <<"C", "a", "t">>, ext |-> <<>>],
      [dir |-> <<>>, stem |-> <<"m", "u", "g">>, ext |-> <<".", "j", "p", "g">>],
      [dir |-> <<>>, stem |-> <<>>, ext |-> <<>>] }

\* the image form value written for such a reference
Ref(t) == t.dir \o t.stem \o t.ext

\* forms of POST /items that differ in their image reference only
RefForms == { [name |-> "mug", category |-> "kitchen", image |-> Ref(t)] : t \in ImageRefs }

\* the :item_id values of GET /items/:item_id
IdParams == { <<"1">>, <<"2">>, <<"7">>, <<"1", "x">> }

NoForm == [name |-> "", category |-> "", image |-> <<>>]
NoReq == [op |-> "none", form |-> NoForm, id |-> <<>>]

\* ImgDir = "images"
ImgDir == <<"i", "m", "a", "g", "e", "s">>
Jpg == <<".", "j", "p", "g">>
APng == <<"a", ".", "p", "n", "g">>
AJpg == <<"a">> \o Jpg
BJpg == <<"b">> \o Jpg
DefaultJpg == <<"d", "e", "f", "a", "u", "l", "t">> \o Jpg

\* the :imageFilename values of GET /image/:imageFilename (one path segment)
ImageParams == { AJpg, BJpg, APng, Jpg, <<>>, <<"a", ".", "J", "P", "G">> }
NoResp ==
    [status |-> 0, kind |-> "none", items |-> <<>>, item |-> NoItem, msg |-> "",
     path |-> <<>>, req |-> NoReq]

\* c.JSON(status, ...)
Message(status, m) == [NoResp EXCEPT !.status = status, !.kind = "message", !.msg = m]
ErrorBody(status, m) == [NoResp EXCEPT !.status = status, !.kind = "error", !.msg = m]
ItemsBody(w) == [NoResp EXCEPT !.status = 200, !.kind = "items", !.items = w.elems]
ItemBody(it) == [NoResp EXCEPT !.status = 200, !.kind = "item", !.item = it]

\* strconv.Atoi
DigitVal(c) ==
    CASE c = "0" -> 0 [] c = "1" -> 1 [] c = "2" -> 2 [] c = "3" -> 3
      [] c = "4" -> 4 [] c = "5" -> 5 [] c = "6" -> 6 [] c = "7" -> 7
      [] c = "8" -> 8 [] c = "9" -> 9 [] OTHER -> -1

RECURSIVE DigitsVal(_)
DigitsVal(s) ==
    IF s = <<>> THEN 0 ELSE 10 * DigitsVal(SubSeq(s, 1, Len(s) - 1)) + DigitVal(s[Len(s)])

Atoi(s) ==
    LET signed == Len(s) > 0 /\ s[1] \in {"+", "-"}
        d == IF signed THEN SubSeq(s, 2, Len(s)) ELSE s
    IN IF d = <<>> \/ \E i \in 1..Len(d) : DigitVal(d[i]) < 0
       THEN [err |-> TRUE, n |-> 0]
       ELSE [err |-> FALSE, n |-> IF signed /\ s[1] = "-" THEN 0 - DigitsVal(d) ELSE DigitsVal(d)]

-----------------------------------------------------------------------------
\* The state the server starts in.

Item0 == MkItem(0, "pen", "office", ImgFilename(<<"p", "e", "n">>))
Row0 == MkItem(1, "pen", "office", ImgFilename(<<"p", "e", "n">>))

\* items.json as the server may find it: absent, zero-length, an empty
\* collection, one item, or a truncated document
InitFiles ==
    { [exists |-> FALSE, data |-> <<>>],
      [exists |-> TRUE, data |-> <<>>],
      [exists |-> TRUE, data |-> Marshal(MkWrapper(<<>>))],
      [exists |-> TRUE, data |-> Marshal(MkWrapper(<<Item0>>))],
      [exists |-> TRUE, data |-> <<LB, KEY, LBR, ItemTok(Item0)>>] }

\* the items table as the server may find it: missing, empty, or one row
InitTables ==
    { [exists |-> FALSE, data |-> <<>>],
      [exists |-> TRUE, data |-> <<>>],
      [exists |-> TRUE, data |-> <<Row0>>] }

InitStore ==
    /\ variant \in {"file", "db"}
    /\ alive = TRUE
    /\ init0 \in IF variant = "file" THEN InitFiles ELSE InitTables
    /\ fileExists = (variant = "file" /\ init0.exists)
    /\ file = IF variant = "file" THEN init0.data ELSE <<>>
    /\ tableExists = (variant = "db" /\ init0.exists)
    /\ table = IF variant = "db" THEN init0.data ELSE <<>>
    /\ pc = [p \in Procs |-> "idle"]
    /\ req = [p \in Procs |-> NoReq]
    /\ rd = [p \in Procs |-> NilWrapper]
    /\ resp = NoResp
    /\ nreq = 0
    /\ faults = 0
    /\ acked = <<>>
    /\ ids = <<>>
    /\ refs = <<>>

\* path.Join(dir, name) for a name of one path segment: the joined path is
\* cleaned, so an empty name or "." gives dir and ".." gives "."
Join(dir, name) ==
    IF name = <<>> \/ name = <<".">> THEN dir
    ELSE IF name = <<".", ".">> THEN <<".">>
    ELSE dir \o <<"/">> \o name

\* the image directory as deployed: the placeholder, one image, one file
\* that is not a .jpg
ImagesDeployed == {Join(ImgDir, DefaultJpg), Join(ImgDir, AJpg), Join(ImgDir, APng)}

\* the image directory as the server may find it
ImageDirs ==
    { {}, {Join(ImgDir, DefaultJpg)}, ImagesDeployed,
      {Join(ImgDir, AJpg), Join(ImgDir, APng)} }

Init == InitStore /\ sequential = FALSE /\ images = ImagesDeployed

InitSeq == InitStore /\ sequential = TRUE /\ images = ImagesDeployed

\* any image directory, for the requests of GET /image/:imageFilename
InitImg == InitStore /\ sequential = FALSE /\ images \in ImageDirs

-----------------------------------------------------------------------------
\* The helpers of the file-backed store.

\* os.ReadFile("items.json"): ioerr is a failure of the read itself
ReadFile(exists, data, ioerr) ==
    IF ~exists \/ ioerr THEN [err |-> TRUE, data |-> <<>>]
    ELSE [err |-> FALSE, data |-> data]

\* readItemsFromFile with the decode error dropped
readItemsFromFile_ignoreDecodeError(exists, data, ioerr) ==
    LET f == ReadFile(exists, data, ioerr) IN
    IF f.err THEN [err |-> TRUE, items |-> NilWrapper]
    ELSE [err |-> FALSE, items |-> Unmarshal(f.data).items]

\* readItemsFromFile of part_000
readItemsFromFile(exists, data, ioerr) ==
    LET f == ReadFile(exists, data, ioerr) IN
    IF f.err THEN [err |-> TRUE, items |-> NilWrapper]
    ELSE Unmarshal(f.data)

\* Item{name, category, hashImageName + ".jpg"}
FormItem(form) == MkItem(0, form.name, form.category, ImgFilename(form.image))

\* the next request arrives and is served by goroutine p; free goroutines
\* are all alike, so the first free one is taken
Accept(p) ==
    /\ alive
    /\ pc[p] = "idle"
    /\ \A q \in 1..(p - 1) : pc[q] # "idle"
    /\ nreq < (IF sequential THEN MaxSeqRequests ELSE MaxRequests)
    /\ sequential => \A q \in Procs : pc[q] = "idle"

\* the environment may still produce an I/O failure
MayFail == faults < MaxFaults
Failures == {FALSE} \cup {b \in {TRUE} : MayFail}

Fault(b) == faults' = IF b THEN faults + 1 ELSE faults

\* log.Fatal(err): the message is logged and the process exits
Fatal(p, r) ==
    /\ alive' = FALSE
    /\ pc' = [pc EXCEPT ![p] = "fatal"]
    /\ req' = [req EXCEPT ![p] = r]
    /\ UNCHANGED <<resp, rd>>

\* the handler of goroutine p answers request r with response b and returns
Respond(p, r, b) ==
    /\ resp' = [b EXCEPT !.req = r]
    /\ pc' = [pc EXCEPT ![p] = "idle"]
    /\ req' = [req EXCEPT ![p] = NoReq]
    /\ rd' = [rd EXCEPT ![p] = NilWrapper]
    /\ UNCHANGED alive

AddReq(form) == [NoReq EXCEPT !.op = "add", !.form = form]
ListReq == [NoReq EXCEPT !.op = "list"]
ReadReq == [NoReq EXCEPT !.op = "read"]
GetReq(idParam) == [NoReq EXCEPT !.op = "get", !.id = idParam]
ImgReq(name) == [NoReq EXCEPT !.op = "img", !.id = name]

Received(form) == [Message(200, "item received") EXCEPT !.item.Name = form.name]
ReadFailed == ErrorBody(500, "Failed to read json file")

-----------------------------------------------------------------------------
\* POST /items of part_000: addItem, up to the call of writeItemsToJSON, for
\* the forms the clients post.
AddItemReadOf(p, forms) ==
    /\ variant = "file"
    /\ Accept(p)
    /\ \E form \in forms, ioerr \in Failures :
         LET itemWrapper == readItemsFromFile(fileExists, file, ioerr) IN
         /\ Fault(ioerr)
         /\ IF itemWrapper.err
            THEN Respond(p, AddReq(form), ReadFailed)
            ELSE /\ pc' = [pc EXCEPT ![p] = "write_open"]
                 /\ req' = [req EXCEPT ![p] = AddReq(form)]
                 /\ rd' = [rd EXCEPT ![p] = AppendItem(itemWrapper.items, FormItem(form))]
                 /\ UNCHANGED <<alive, resp>>
    /\ nreq' = nreq + 1
    /\ UNCHANGED <<variant, fileExists, file, tableExists, table, acked, ids, refs,
                   init0, sequential, images>>

AddItemRead(p) == AddItemReadOf(p, AddForms)

AddItemReadRefs(p) == AddItemReadOf(p, RefForms)

\* writeItemsToJSON has returned err to its caller: addItem calls log.Fatal,
\* readItemsFromFile of main.go returns the error
WriteErr(p) ==
    IF req[p].op = "add"
    THEN Fatal(p, req[p])
    ELSE Respond(p, req[p], ErrorBody(0, "write"))

\* writeItemsToJSON has returned nil to its caller
WriteOk(p) ==
    IF req[p].op = "add"
    THEN /\ Respond(p, req[p], Received(req[p].form))
         /\ acked' = Append(acked, FormItem(req[p].form))
         /\ ids' = Append(ids, Len(rd[p].elems))
         /\ refs' = Append(refs, req[p].form.image)
    ELSE /\ Respond(p, req[p], ItemsBody(NilWrapper))
         /\ UNCHANGED <<acked, ids, refs>>

\* writeItemsToJSON, os.WriteFile opening items.json with O_CREATE|O_TRUNC.
\* A failed open leaves the file as it was; os.ErrNotExist means the
\* directory is missing, and then os.Create fails in the same way.
WriteOpen(p) ==
    /\ alive
    /\ pc[p] = "write_open"
    /\ \/ /\ fileExists' = TRUE
          /\ file' = <<>>
          /\ pc' = [pc EXCEPT ![p] = "write_data"]
          /\ UNCHANGED <<alive, req, rd, resp, faults>>
       \/ /\ MayFail
          /\ Fault(TRUE)
          /\ WriteErr(p)
          /\ UNCHANGED <<fileExists, file>>
    /\ UNCHANGED <<variant, tableExists, table, nreq, acked, ids, refs, init0,
                   sequential, images>>

\* writeItemsToJSON, os.WriteFile writing the document at offset 0 and
\* closing.  A failed write leaves a proper prefix of the document.
WriteData(p) ==
    /\ alive
    /\ pc[p] = "write_data"
    /\ LET itemsJsonData == Marshal(rd[p]) IN
       \/ /\ file' = Overlay(file, itemsJsonData)
          /\ WriteOk(p)
          /\ UNCHANGED faults
       \/ /\ MayFail
          /\ Fault(TRUE)
          /\ \E k \in 0..(Len(itemsJsonData) - 1) :
               file' = Overlay(file, SubSeq(itemsJsonData, 1, k))
          /\ WriteErr(p)
          /\ UNCHANGED <<acked, ids, refs>>
    /\ UNCHANGED <<variant, fileExists, tableExists, table, nreq, init0, sequential, images>>

\* GET /items of part_000: getAllItems
GetAllItemsFile(p) ==
    /\ variant = "file"
    /\ Accept(p)
    /\ \E ioerr \in Failures :
         LET items == readItemsFromFile(fileExists, file, ioerr) IN
         /\ Fault(ioerr)
         /\ Respond(p, ListReq, IF items.err THEN ReadFailed ELSE ItemsBody(items.items))
    /\ nreq' = nreq + 1
    /\ UNCHANGED <<variant, fileExists, file, tableExists, table, acked, ids, refs,
                   init0, sequential, images>>

\* readItemsFromFile of main.go, up to the call of writeItemsToJSON: a
\* zero-length items.json is replaced by the encoding of ItemWrapper{}
ReadItemsFromFileMain(p) ==
    /\ variant = "file"
    /\ Accept(p)
    /\ \E ioerr \in Failures :
         LET f == ReadFile(fileExists, file, ioerr)
             items == Unmarshal(f.data)
         IN
         /\ Fault(ioerr)
         /\ IF f.err
            THEN Respond(p, ReadReq, ErrorBody(0, "read"))
            ELSE IF Len(f.data) = 0
            THEN /\ pc' = [pc EXCEPT ![p] = "write_open"]
                 /\ req' = [req EXCEPT ![p] = ReadReq]
                 /\ rd' = [rd EXCEPT ![p] = NilWrapper]
                 /\ UNCHANGED <<alive, resp>>
            ELSE Respond(p, ReadReq, IF items.err THEN ErrorBody(0, "unmarshal")
                                     ELSE ItemsBody(items.items))
    /\ nreq' = nreq + 1
    /\ UNCHANGED <<variant, fileExists, file, tableExists, table, acked, ids, refs,
                   init0, sequential, images>>

-----------------------------------------------------------------------------
\* The relational store of main.go.

\* the id sqlite gives the next row of items(id INTEGER PRIMARY KEY, ...)
DbNextId(rows) == IF rows = <<>> THEN 1 ELSE rows[Len(rows)].Id + 1

\* db.Exec / db.Query fail when the database cannot be used
DbErr(dberr) == ~tableExists \/ dberr

\* SELECT * FROM items WHERE id=$1
SelectById(rows, id) == SelectSeq(rows, LAMBDA r : r.Id = id)

\* POST /items of main.go: addItem, for the forms the clients post
AddItemDbOf(p, forms) ==
    /\ variant = "db"
    /\ Accept(p)
    /\ \E form \in forms, dberr \in Failures :
         LET row == MkItem(DbNextId(table), form.name, form.category,
                           ImgFilename(form.image))
         IN
         /\ Fault(dberr)
         /\ IF DbErr(dberr)
            THEN /\ Fatal(p, AddReq(form))
                 /\ UNCHANGED <<table, acked, ids, refs>>
            ELSE /\ table' = Append(table, row)
                 /\ Respond(p, AddReq(form), Received(form))
                 /\ acked' = Append(acked, row)
                 /\ ids' = Append(ids, row.Id)
                 /\ refs' = Append(refs, form.image)
    /\ nreq' = nreq + 1
    /\ UNCHANGED <<variant, fileExists, file, tableExists, init0, sequential, images>>

AddItemDb(p) == AddItemDbOf(p, AddForms)

AddItemDbRefs(p) == AddItemDbOf(p, RefForms)

\* GET /items of main.go: getAllItems
GetAllItemsDb(p) ==
    /\ variant = "db"
    /\ Accept(p)
    /\ \E dberr \in Failures :
         /\ Fault(dberr)
         /\ IF DbErr(dberr)
            THEN Fatal(p, ListReq)
            ELSE Respond(p, ListReq, ItemsBody(MkWrapper(table)))
    /\ nreq' = nreq + 1
    /\ UNCHANGED <<variant, fileExists, file, tableExists, table, acked, ids, refs,
                   init0, sequential, images>>

\* an error returned by a handler: echo's default error handler answers 500
HandlerError == ErrorBody(500, "Internal Server Error")
NotFound == Message(404, "Not found")

\* GET /items/:item_id of main.go: getItem
GetItem(p) ==
    /\ variant = "db"
    /\ Accept(p)
    /\ \E idParam \in IdParams, dberr \in Failures :
         LET itemId == Atoi(idParam)
             rows == SelectById(table, itemId.n)
         IN
         IF itemId.err
         THEN /\ ~dberr
              /\ Respond(p, GetReq(idParam), HandlerError)
              /\ UNCHANGED faults
         ELSE /\ Fault(dberr)
              /\ IF DbErr(dberr)
                 THEN Fatal(p, GetReq(idParam))
                 ELSE Respond(p, GetReq(idParam),
                              IF rows # <<>> THEN ItemBody(rows[1]) ELSE NotFound)
    /\ nreq' = nreq + 1
    /\ UNCHANGED <<variant, fileExists, file, tableExists, table, acked, ids, refs,
                   init0, sequential, images>>

-----------------------------------------------------------------------------
\* ImageResolver: getImg of both revisions.

\* strings.HasSuffix
HasSuffix(s, suf) ==
    Len(suf) <= Len(s) /\ SubSeq(s, Len(s) - Len(suf) + 1, Len(s)) = suf

\* os.Stat(imgPath) returns no error
Stat(files, imgPath) == imgPath \in files

\* getImg with the existence check and the substitution before the suffix check
resolve_statFirst(files, imageFilename) ==
    LET joined == Join(ImgDir, imageFilename)
        imgPath == IF Stat(files, joined) THEN joined ELSE Join(ImgDir, DefaultJpg)
    IN IF ~HasSuffix(imgPath, Jpg)
       THEN [bad |-> TRUE, path |-> imgPath]
       ELSE [bad |-> FALSE, path |-> imgPath]

\* getImg up to c.File: the path it resolves the requested name to
resolve(files, imageFilename) ==
    LET imgPath == Join(ImgDir, imageFilename) IN
    IF ~HasSuffix(imgPath, Jpg)
    THEN [bad |-> TRUE, path |-> imgPath]
    ELSE IF ~Stat(files, imgPath)
    THEN [bad |-> FALSE, path |-> Join(ImgDir, DefaultJpg)]
    ELSE [bad |-> FALSE, path |-> imgPath]

BadImagePath == Message(400, "Image path does not end with .jpg")

\* c.File(imgPath): the file is sent, or 404 when it cannot be opened
File(files, imgPath) ==
    IF imgPath \in files
    THEN [NoResp EXCEPT !.status = 200, !.kind = "file", !.path = imgPath]
    ELSE [Message(404, "Not Found") EXCEPT !.path = imgPath]

\* GET /image/:imageFilename: getImg
GetImg(p) ==
    /\ Accept(p)
    /\ \E imageFilename \in ImageParams :
         LET r == resolve(images, imageFilename) IN
         Respond(p, ImgReq(imageFilename),
                 IF r.bad THEN BadImagePath ELSE File(images, r.path))
    /\ nreq' = nreq + 1
    /\ UNCHANGED <<variant, fileExists, file, tableExists, table, faults, acked, ids, refs,
                   init0, sequential, images>>

-----------------------------------------------------------------------------
\* the request handlers of the two revisions
Handlers(p) ==
    \/ AddItemRead(p)
    \/ WriteOpen(p)
    \/ WriteData(p)
    \/ GetAllItemsFile(p)
    \/ AddItemDb(p)
    \/ GetAllItemsDb(p)
    \/ GetItem(p)
    \/ GetImg(p)

Next == \E p \in Procs : Handlers(p)

\* the handlers, and readItemsFromFile of main.go called on the same file
NextHelpers == \E p \in Procs : Handlers(p) \/ ReadItemsFromFileMain(p)

\* requests served by concurrent goroutines
Spec == Init /\ [][Next]_vars

\* requests served one after the other
SpecSeq == InitSeq /\ [][Next]_vars

\* concurrent requests and concurrent calls of main.go's readItemsFromFile
SpecHelpers == Init /\ [][NextHelpers]_vars

\* image requests alone, against any image directory
NextImg == \E p \in Procs : GetImg(p)

SpecImg == InitImg /\ [][NextImg]_vars

\* items posted one after the other with image references of every shape
NextRefs ==
    \E p \in Procs :
        AddItemReadRefs(p) \/ WriteOpen(p) \/ WriteData(p) \/ AddItemDbRefs(p)

SpecRefs == InitSeq /\ [][NextRefs]_vars

-----------------------------------------------------------------------------
\* Notions the properties are stated in.

IsPrefix(s, t) == Len(s) <= Len(t) /\ SubSeq(t, 1, Len(s)) = s

Idle == \A p \in Procs : pc[p] = "idle"

\* the server started with a store it could read
InitReadable == init0.exists /\ (variant = "file" => ~Unmarshal(init0.data).err)

\* the items persisted when the server started
InitItems ==
    IF variant = "file" THEN Unmarshal(init0.data).items.elems ELSE init0.data

\* nothing was ever written to the store: no backing file or table, or a
\* zero-length file
NeverWritten ==
    /\ ~init0.exists \/ (variant = "file" /\ init0.data = <<>>)
    /\ acked = <<>>

Listed == resp.req.op = "list" /\ resp.status = 200 /\ resp.kind = "items"

-----------------------------------------------------------------------------
\* C1: file-backed store: once every one of K concurrent addItem requests
\* has been answered 200, a list request returns the items the store started
\* with and one item per answered request; no addItem's item is lost.
C1_NoLostUpdate ==
    (variant = "file" /\ faults = 0 /\ Idle /\ Listed)
        => /\ Len(resp.items) = Len(InitItems) + Len(acked)
           /\ \A i \in 1..Len(acked) :
                \E j \in 1..Len(resp.items) : resp.items[j] = acked[i]

\* C2: with requests served one after the other, a list request answered 200
\* returns the items of the addItem requests answered 200, in the order they
\* were appended (after the items the store started with), each with the
\* name, category and derived image filename it was added with; and a getItem
\* request for the id of a listed item returns that item.
C2_SequentialAppendsListed ==
    /\ Listed => resp.items = InitItems \o acked
    /\ (variant = "file" /\ InitReadable /\ fileExists /\ ~Unmarshal(file).err)
          => Unmarshal(file).items.elems = InitItems \o acked
    /\ variant = "db" => table = InitItems \o acked
    /\ (resp.req.op = "get" /\ ~Atoi(resp.req.id).err)
          => \A i \in 1..Len(table) :
                table[i].Id = Atoi(resp.req.id).n
                    => resp.kind = "item" /\ resp.item = table[i]

C2_Witness ==
    /\ sequential
    /\ InitItems = <<>>
    /\ Len(acked) >= 2
    /\ acked[1] # acked[2]
    /\ Listed
    /\ resp.items = acked

\* C3: file-backed store: an addItem whose write of items.json failed leaves
\* a file that decodes to the collection it read or to that collection with
\* its item appended.
C3_FailedWriteLeavesOldOrNew ==
    \A p \in Procs :
        (variant = "file" /\ pc[p] = "fatal" /\ req[p].op = "add")
            => /\ fileExists
               /\ ~Unmarshal(file).err
               /\ \/ Unmarshal(file).items.elems = rd[p].elems
                  \/ Unmarshal(file).items.elems = SubSeq(rd[p].elems, 1, Len(rd[p].elems) - 1)

\* C4: file-backed store: a list request served while an addItem is in
\* progress is answered 200 with a complete collection, which holds at least
\* the items the store started with; it is never answered with an error
\* because it read the file between the truncation and the write.
C4_ListNeverSeesWriteWindow ==
    (variant = "file" /\ InitReadable /\ faults = 0 /\ resp.req.op = "list")
        => Listed /\ IsPrefix(InitItems, resp.items)

\* C5: no request, whatever fails in the store, ends the serving process.
C5_ProcessNeverTerminates == alive /\ \A p \in Procs : pc[p] # "fatal"

\* C6: file-backed store: a list request (or a call of main.go's
\* readItemsFromFile) that finds items.json present, not zero-length and
\* undecodable is answered with an error, never with a collection; one that
\* reads a decodable file is answered with the collection decoded from it.
C6_CorruptStoreIsAnError ==
    [][(variant = "file" /\ nreq' = nreq + 1 /\ pc' = pc
          /\ resp'.req.op \in {"list", "read"} /\ fileExists /\ file # <<>>)
        => IF Unmarshal(file).err
           THEN resp'.kind = "error" /\ (resp'.req.op = "list" => resp'.status = 500)
           ELSE faults' = faults
                   => /\ resp'.kind = "items"
                      /\ resp'.items = Unmarshal(file).items.elems]_vars

C6_Witness ==
    /\ variant = "file"
    /\ faults = 0
    /\ resp.req.op = "list"
    /\ resp.status = 500
    /\ fileExists /\ file # <<>> /\ file = init0.data
    /\ Unmarshal(file).err

\* C7: a list request on a store that was never written (no backing file or
\* table, or a zero-length file) is answered 200 with an empty collection,
\* and the process keeps running.
C7_NeverWrittenListsEmpty ==
    (NeverWritten /\ faults = 0)
        => /\ alive
           /\ resp.req.op = "list" => Listed /\ resp.items = <<>>

\* C8: an addItem request with an empty name or an empty category is never
\* answered 200, and no item with an empty name or category is persisted.
C8_EmptyNameOrCategoryRejected ==
    /\ (resp.req.op = "add" /\ (resp.req.form.name = "" \/ resp.req.form.category = ""))
          => resp.status # 200
    /\ \A i \in 1..Len(acked) : acked[i].Name # "" /\ acked[i].Category # ""

\* C9: a getItem request whose id is not a decimal integer is answered with
\* a client error other than 404.
C9_NonNumericIdIsClientError ==
    (resp.req.op = "get" /\ Atoi(resp.req.id).err)
        => resp.status \in 400..499 /\ resp.status # 404

\* C10: a getItem request with a numeric id that no stored item has is
\* answered 404 "Not found" and does not end the process; an item is
\* returned only when an item with exactly that id is stored.
C10_AbsentIdIsNotFound ==
    /\ \A p \in Procs :
          (req[p].op = "get" /\ SelectById(table, Atoi(req[p].id).n) = <<>>)
              => pc[p] # "fatal"
    /\ (resp.req.op = "get" /\ ~Atoi(resp.req.id).err)
          => IF SelectById(table, Atoi(resp.req.id).n) = <<>>
             THEN resp.status = 404 /\ resp.kind = "message" /\ resp.msg = "Not found"
             ELSE /\ resp.kind = "item"
                  /\ resp.item.Id = Atoi(resp.req.id).n
                  /\ \E i \in 1..Len(table) : table[i] = resp.item

\* C11: an image request whose joined path does not end in ".jpg" is answered
\* 400 whether or not that file exists; otherwise the file served is the
\* requested one when it exists and images/default.jpg when it does not, and
\* the substitution itself is no error: the placeholder is sent with 200
\* whenever it exists.
C11_ImageResolved ==
    resp.req.op = "img" =>
        LET candidate == Join(ImgDir, resp.req.id)
            placeholder == Join(ImgDir, DefaultJpg)
        IN IF ~HasSuffix(candidate, Jpg)
           THEN resp.status = 400 /\ resp.kind = "message" /\ resp.path = <<>>
           ELSE IF candidate \in images
           THEN resp.status = 200 /\ resp.kind = "file" /\ resp.path = candidate
           ELSE /\ resp.path = placeholder
                /\ placeholder \in images => resp.status = 200 /\ resp.kind = "file"
                /\ resp.status # 400

C11_Witness ==
    /\ resp.req.op = "img"
    /\ resp.req.id = BJpg
    /\ Join(ImgDir, BJpg) \notin images
    /\ resp.status = 200
    /\ resp.kind = "file"
    /\ resp.path = Join(ImgDir, DefaultJpg)

\* the collection a list request would return now, when the store can be read
StoreReadable == IF variant = "file" THEN fileExists /\ ~Unmarshal(file).err ELSE tableExists
Stored == IF variant = "file" THEN Unmarshal(file).items.elems ELSE table

\* the id of the k-th listed item: its 1-based position in items.json (which
\* holds no id), its primary key in the items table
IdAt(k) == IF variant = "file" THEN k ELSE table[k].Id

\* C12: whenever the store can be read, the ids of the listed items are
\* strictly increasing in insertion order (hence pairwise distinct), for the
\* file-backed store exactly 1..N, and every item answered 200 is still
\* listed under the id it was stored under.
C12_IdsDistinctIncreasingStable ==
    StoreReadable =>
        /\ \A k \in 1..(Len(Stored) - 1) : IdAt(k) < IdAt(k + 1)
        /\ variant = "file" => \A k \in 1..Len(Stored) : IdAt(k) = k
        /\ \A i \in 1..Len(acked) :
              \E k \in 1..Len(Stored) : IdAt(k) = ids[i] /\ Stored[k] = acked[i]

\* C12 for the relational store alone
C12_RelationalIds == variant = "db" => C12_IdsDistinctIncreasingStable

\* the stem a client composed the image reference r with
StemOf(r) == (CHOOSE t \in ImageRefs : Ref(t) = r).stem

\* sha256hex(stem) + ".jpg"
NameOfStem(stem) == [hash |-> [sha256 |-> stem], ext |-> ".jpg"]

\* C13: every acknowledged item is stored under the name sha256hex(stem) +
\* ".jpg" of the stem of its image reference, whatever the directory and the
\* extension of the reference, the empty reference included; two items have
\* the same image name exactly when their stems are the same, letter case
\* included; and no item is refused for its image reference: the only error
\* answer is the one for an unreadable store.
C13_ImageNameOfStem ==
    /\ \A i \in 1..Len(acked) :
          /\ acked[i].Img_filename = NameOfStem(StemOf(refs[i]))
          /\ StoreReadable =>
                \E k \in 1..Len(Stored) :
                    IdAt(k) = ids[i] /\ Stored[k].Img_filename = NameOfStem(StemOf(refs[i]))
    /\ \A i, j \in 1..Len(acked) :
          (StemOf(refs[i]) = StemOf(refs[j])) <=>
              (acked[i].Img_filename = acked[j].Img_filename)
    /\ (resp.req.op = "add" /\ resp.status # 200) => resp = [ReadFailed EXCEPT !.req = resp.req]

\* three stored items: two of stem cat under different directories and
\* extensions, one of stem Cat; and one item posted without image reference
C13_Witness ==
    /\ StoreReadable
    /\ \E i, j, k \in 1..Len(acked) :
          /\ refs[i] = <<"/", "a", ".", "b", "/", "c", "a", "t", ".", "p", "n", "g">>
          /\ refs[j] = <<"/", "x", "/", "c", "a", "t", ".", "j", "p", "g">>
          /\ refs[k] = <<"/", "a", ".", "b", "/", "C", "a", "t">>
          /\ acked[i].Img_filename = acked[j].Img_filename
          /\ acked[i].Img_filename # acked[k].Img_filename
    /\ \E i \in 1..Len(acked) :
          refs[i] = <<>> /\ acked[i].Img_filename = NameOfStem(<<>>)

\* C14: file-backed store: the first addItem request served while items.json
\* is missing or zero-length is answered 200, and the file then holds exactly
\* the one item of that request.
C14_AddOnMissingOrEmptyFile ==
    (/\ variant = "file"
     /\ ~init0.exists \/ init0.data = <<>>
     /\ faults = 0 /\ nreq = 1 /\ Idle
     /\ resp.req.op = "add")
        => /\ resp.status = 200
           /\ fileExists /\ ~Unmarshal(file).err
           /\ Unmarshal(file).items.elems = <<FormItem(resp.req.form)>>

\* the items a list request would be given by the store as it is
StoredItems ==
    IF variant = "file"
    THEN IF fileExists /\ ~Unmarshal(file).err THEN Unmarshal(file).items.elems ELSE <<>>
    ELSE table

\* a step of a request other than addItem: a request served in one step, or
\* a later step of a call of readItemsFromFile
ReadStep ==
    \/ nreq' = nreq + 1 /\ pc' = pc /\ resp'.req.op # "add"
    \/ \E p \in Procs : pc[p] \in {"write_open", "write_data"} /\ req[p].op # "add"
                         /\ pc'[p] # pc[p]

C15_HandlerReadsLeaveItems ==
    [][(nreq' = nreq + 1 /\ pc' = pc /\ resp'.req.op \in {"list", "get", "img"})
          => StoredItems' = StoredItems]_vars
====
